---- MODULE Spec2Model ----
(***************************************************************************)
(* GeoExt.PrintMapPanel (print preview map synchronised with a print page) *)
(* and GisArts.WMSLegend (legend item reconciliation) as state machines.   *)
(* Zoom levels and list indexes are 0-based as in the JavaScript source;   *)
(* TLA+ sequences are 1-based, so an index i of the source is i + 1 here.  *)
(* Resolutions are integers: the scale values are multiples of             *)
(* 72 * 36 = 2592, so that scale / (INCHES_PER_UNIT * 72) is exact.  The   *)
(* panel size is not whole in general and is kept as exact fractions.      *)
(***************************************************************************)
EXTENDS Integers, Sequences, FiniteSets, TLC

VARIABLES
    \* ---- GeoExt.PrintMapPanel and its collaborators ----
    scales,            \* printProvider.scales: the scale values, in store order
    layout,            \* printProvider.layout "size"
    units,             \* sourceMap.getUnits()
    baseUnits,         \* this.map.baseLayer.units (layers cloned in initComponent)
    printResolutions,  \* this.printResolutions
    mapZoom,           \* this.map.getZoom()
    mapCenter,         \* this.map.getCenter()
    size,              \* the panel size set by fitSize, width and height as fractions
    pageScale,         \* this.printPage.scale value
    pageCenter,        \* this.printPage.center
    updating,          \* this._updating
    stack,             \* handlers in progress, innermost last
    nestedFit,         \* printPage.fit was invoked while fitZoom was executing
    lastStep,          \* the step taken last
    zoomBefore,        \* this.map.getZoom() before that step
    lastRead,          \* what that step read from printResolutions
    calls,             \* the last getZoomForResolution calls on the current list
    \* ---- GisArts.WMSLegend ----
    layer,             \* layerRecord.getLayer(): present, attached, its map's extent
    items,             \* this.items
    ranSuper,          \* the last update call ran GeoExt.WMSLegend.superclass.update
    ranLayout,         \* the last update call ran doLayout
    urlResult,         \* result of the last direct getLegendUrl call
    before,            \* the items before the last update call
    lastOp             \* the legend operation run last

pvars == <<scales, layout, units, baseUnits, printResolutions, mapZoom, mapCenter,
           size, pageScale, pageCenter, updating, stack, nestedFit, lastStep,
           zoomBefore, lastRead, calls>>
lvars == <<layer, items, ranSuper, ranLayout, urlResult, before, lastOp>>
vars == <<pvars, lvars>>

(***************************************************************************)
(* Bounds of the model.                                                    *)
(***************************************************************************)
MaxScales == 3
MaxTarget == 17
MaxImages == 2

ScaleValues == {2592, 10368, 15552}
ScaleLists == UNION {[1..n -> ScaleValues] : n \in 1..MaxScales}
Units == {"ft", "yd"}
Centers == {"c0", "c1"}
Layouts == {[w |-> 4, h |-> 6], [w |-> 6, h |-> 4]}
DefaultLayout == [w |-> 4, h |-> 6]
Targets == 1..MaxTarget

Min(a, b) == IF a < b THEN a ELSE b
Max(a, b) == IF a > b THEN a ELSE b
Range(s) == {s[k] : k \in DOMAIN s}

(***************************************************************************)
(* Collaborators: OpenLayers.Util and the source map.                      *)
(***************************************************************************)
INCHES_PER_UNIT(u) == IF u = "ft" THEN 12 ELSE 36

\* OpenLayers.Util.getResolutionFromScale(scale, units), DOTS_PER_INCH = 72
getResolutionFromScale(scale, u) == scale \div (INCHES_PER_UNIT(u) * 72)

\* the resolutions of the source map's base layer, one per zoom level
SourceResolutions == <<16, 8, 4, 1>>

\* the value of i when the loop "for (i = 0; i < len; i++) if (list[i] < resolution) break"
\* started at i ends
RECURSIVE ScanFrom(_, _, _)
ScanFrom(list, resolution, i) ==
    IF i < Len(list)
    THEN IF list[i + 1] < resolution THEN i ELSE ScanFrom(list, resolution, i + 1)
    ELSE i

\* sourceMap.getZoomForResolution(resolution) and sourceMap.getResolutionForZoom(zoom)
sourceGetZoomForResolution(resolution) ==
    Max(0, ScanFrom(SourceResolutions, resolution, 0) - 1)
sourceGetResolutionForZoom(zoom) == SourceResolutions[zoom + 1]

Zooms == 0..(Len(SourceResolutions) - 1)

(***************************************************************************)
(* GeoExt.PrintMapPanel: pure parts.                                       *)
(***************************************************************************)
updatePrintResolutions(scaleList, u) ==
    [k \in 1..Len(scaleList) |->
        sourceGetResolutionForZoom(
            sourceGetZoomForResolution(getResolutionFromScale(scaleList[k], u)))]

\* the loop of getZoomForResolution with its comparison turned around
RECURSIVE ScanFromFlipped(_, _, _)
ScanFromFlipped(list, resolution, i) ==
    IF i < Len(list)
    THEN IF list[i + 1] > resolution THEN i ELSE ScanFromFlipped(list, resolution, i + 1)
    ELSE i

selectedIndexFlipped(list, resolution) ==
    Max(0, ScanFromFlipped(list, resolution, 0) - 1)
selectedIndexNoStepBack(list, resolution) ==
    Min(ScanFrom(list, resolution, 0), Len(list) - 1)

\* the index of printResolutions that getZoomForResolution selects
selectedIndex(list, resolution) == Max(0, ScanFrom(list, resolution, 0) - 1)

getZoomForResolution(list, resolution) ==
    sourceGetZoomForResolution(list[selectedIndex(list, resolution) + 1])

\* Array.prototype.indexOf
indexOf(list, x) ==
    IF \E k \in DOMAIN list : list[k] = x
    THEN (CHOOSE k \in DOMAIN list : list[k] = x /\ \A j \in 1..(k - 1) : list[j] # x) - 1
    ELSE -1

\* zoomIn as OpenLayers.Map has it, without the override
zoomInNotOverridden(list, zoom) == Min(zoom + 1, Len(SourceResolutions) - 1)

\* the zoom levels the overridden zoomIn, zoomOut and zoomToMaxExtent move to
zoomInTarget(list, zoom) ==
    getZoomForResolution(list,
        list[Min(indexOf(list, sourceGetResolutionForZoom(zoom)) + 1, Len(list) - 1) + 1])
zoomOutTarget(list, zoom) ==
    getZoomForResolution(list,
        list[Max(indexOf(list, sourceGetResolutionForZoom(zoom)) - 1, 0) + 1])
zoomToMaxExtentTarget(list) == getZoomForResolution(list, list[1])

\* JavaScript numbers that are not whole: the quotient n / d as the fraction in lowest
\* terms, [num, den] with den > 0 (3 x 4.5 is [3, 1] x [9, 2])
RECURSIVE gcd(_, _)
gcd(a, b) == IF b = 0 THEN a ELSE gcd(b, a % b)
quotient(n, d) == [num |-> n \div gcd(n, d), den |-> d \div gcd(n, d)]

\* PrintPage.calculatePageBounds(scale, units): width and height of the page bounds,
\* size / 72 / INCHES_PER_UNIT * scale
calculatePageBounds(lay, scale, u) ==
    [w |-> quotient(lay.w * scale, 72 * INCHES_PER_UNIT(u)),
     h |-> quotient(lay.h * scale, 72 * INCHES_PER_UNIT(u))]

\* the size fitSize sets, from the print resolutions it reads:
\* extent.getWidth() / resolution, extent.getHeight() / resolution
fitSizeOf(lay, scaleList, u, list) ==
    LET extent == calculatePageBounds(lay, scaleList[1], u)
        resolution == list[1]
    IN [w |-> quotient(extent.w.num, extent.w.den * resolution),
        h |-> quotient(extent.h.num, extent.h.den * resolution)]

(***************************************************************************)
(* GeoExt.PrintMapPanel: state machine.  The handlers run synchronously;   *)
(* stack holds the handlers in progress.  An event raised inside a handler *)
(* pushes the listener, which runs to its end before the handler goes on.  *)
(***************************************************************************)
Top(st) == st[Len(st)]
Pop(st) == SubSeq(st, 1, Len(st) - 1)

\* "fresh" when the list read is what updatePrintResolutions computes now
readOf(list) ==
    IF list = updatePrintResolutions(scales, units) THEN "fresh" ELSE "stale"

legendIdle ==
    /\ layer = [present |-> FALSE, map |-> FALSE, extent |-> <<>>,
                legendLayers |-> <<>>, reverse |-> FALSE, gutter |-> 0]
    /\ items = <<>>
    /\ ranSuper = FALSE
    /\ ranLayout = FALSE
    /\ urlResult = <<>>
    /\ before = <<>>
    /\ lastOp = "none"

\* initComponent with the source map's extent giving idealResolution
initComponent(sl, u, idealResolution) ==
    /\ scales = sl
    /\ layout = DefaultLayout
    /\ units = u
    /\ baseUnits = u
    /\ printResolutions = updatePrintResolutions(sl, u)
    /\ mapZoom = getZoomForResolution(updatePrintResolutions(sl, u), idealResolution)
    /\ mapCenter = "c0"
    /\ size = fitSizeOf(DefaultLayout, sl, u, updatePrintResolutions(sl, u))
    /\ pageScale = 0
    /\ pageCenter = "none"
    /\ updating = FALSE
    /\ stack = << >>
    /\ nestedFit = FALSE
    /\ lastStep = "initComponent"
    /\ zoomBefore = 0
    /\ lastRead = "fresh"

Init ==
    /\ \E sl \in ScaleLists, u \in Units, r \in Targets : initComponent(sl, u, r)
    /\ calls = << >>
    /\ legendIdle

\* the map fires moveend: its listener updatePage runs
moveend(st) == Append(st, "updatePage")

zoomIn ==
    /\ stack = << >>
    /\ mapZoom' = zoomInTarget(printResolutions, mapZoom)
    /\ stack' = moveend(stack)
    /\ lastStep' = "zoomIn"
    /\ lastRead' = readOf(printResolutions)
    /\ UNCHANGED <<scales, layout, units, baseUnits, printResolutions, mapCenter, size,
                   pageScale, pageCenter, updating, nestedFit, calls>>
    /\ zoomBefore' = mapZoom
    /\ UNCHANGED lvars

zoomOut ==
    /\ stack = << >>
    /\ mapZoom' = zoomOutTarget(printResolutions, mapZoom)
    /\ stack' = moveend(stack)
    /\ lastStep' = "zoomOut"
    /\ lastRead' = readOf(printResolutions)
    /\ UNCHANGED <<scales, layout, units, baseUnits, printResolutions, mapCenter, size,
                   pageScale, pageCenter, updating, nestedFit, calls>>
    /\ zoomBefore' = mapZoom
    /\ UNCHANGED lvars

zoomToMaxExtent ==
    /\ stack = << >>
    /\ mapZoom' = zoomToMaxExtentTarget(printResolutions)
    /\ mapCenter' = "c0"
    /\ stack' = moveend(stack)
    /\ lastStep' = "zoomToMaxExtent"
    /\ lastRead' = readOf(printResolutions)
    /\ UNCHANGED <<scales, layout, units, baseUnits, printResolutions, size,
                   pageScale, pageCenter, updating, nestedFit, calls>>
    /\ zoomBefore' = mapZoom
    /\ UNCHANGED lvars

\* the user pans or zooms the preview map with a control that calls neither override
userMove(z, c) ==
    /\ stack = << >>
    /\ <<z, c>> # <<mapZoom, mapCenter>>
    /\ mapZoom' = z
    /\ mapCenter' = c
    /\ stack' = moveend(stack)
    /\ lastStep' = "userMove"
    /\ lastRead' = "none"
    /\ UNCHANGED <<scales, layout, units, baseUnits, printResolutions, size,
                   pageScale, pageCenter, updating, nestedFit, calls>>
    /\ zoomBefore' = mapZoom
    /\ UNCHANGED lvars

\* the print page is given another scale or center: it fires change, fitZoom runs
pageChange(s, c) ==
    /\ stack = << >>
    /\ <<s, c>> # <<pageScale, pageCenter>>
    /\ pageScale' = s
    /\ pageCenter' = c
    /\ stack' = Append(stack, "fitZoom")
    /\ lastStep' = "pageChange"
    /\ lastRead' = "none"
    /\ UNCHANGED <<scales, layout, units, baseUnits, printResolutions, mapZoom, mapCenter,
                   size, updating, nestedFit, calls>>
    /\ zoomBefore' = mapZoom
    /\ UNCHANGED lvars

\* updatePage's guard
updatePageUnguarded(upd) == TRUE
updatePageRuns(upd) == ~upd

\* updatePage: printPage.fit(this.map, true) unless _updating; fit gives the page the
\* map's center and one of the provider's scales, and the page fires change when that
\* modifies it
updatePage ==
    /\ stack # << >>
    /\ Top(stack) = "updatePage"
    /\ lastRead' = "none"
    /\ IF updatePageRuns(updating)
       THEN \E s \in Range(scales) :
              /\ pageScale' = s
              /\ pageCenter' = mapCenter
              /\ nestedFit' = (nestedFit \/ "fitZoom.end" \in Range(stack))
              /\ lastStep' = "updatePage.fit"
              /\ stack' = IF <<s, mapCenter>> # <<pageScale, pageCenter>>
                          THEN Pop(stack) \o <<"updatePage.end", "fitZoom">>
                          ELSE Pop(stack)
       ELSE /\ lastStep' = "updatePage.skip"
            /\ stack' = Pop(stack)
            /\ UNCHANGED <<pageScale, pageCenter, nestedFit>>
    /\ UNCHANGED <<scales, layout, units, baseUnits, printResolutions, mapZoom, mapCenter,
                   size, updating, calls>>
    /\ zoomBefore' = mapZoom
    /\ UNCHANGED lvars

\* updatePage returns after the change listeners of the page have run
updatePageEnd ==
    /\ stack # << >>
    /\ Top(stack) = "updatePage.end"
    /\ stack' = Pop(stack)
    /\ lastStep' = "updatePage.end"
    /\ lastRead' = "none"
    /\ UNCHANGED <<scales, layout, units, baseUnits, printResolutions, mapZoom, mapCenter,
                   size, pageScale, pageCenter, updating, nestedFit, calls>>
    /\ zoomBefore' = mapZoom
    /\ UNCHANGED lvars

\* this._updating = true before map.zoomTo, delete this._updating after it
duringFitZoom(upd) == TRUE
afterFitZoomKept(upd) == upd
afterFitZoom(upd) == FALSE

\* fitZoom up to and including map.zoomTo(zoom), which fires moveend
fitZoom ==
    /\ stack # << >>
    /\ Top(stack) = "fitZoom"
    /\ LET zoom == getZoomForResolution(printResolutions,
                       getResolutionFromScale(pageScale, baseUnits))
       IN /\ updating' = duringFitZoom(updating)
          /\ mapZoom' = zoom
          /\ stack' = IF mapZoom # zoom
                      THEN moveend(Pop(stack) \o <<"fitZoom.end">>)
                      ELSE Pop(stack) \o <<"fitZoom.end">>
    /\ lastStep' = "fitZoom"
    /\ lastRead' = readOf(printResolutions)
    /\ UNCHANGED <<scales, layout, units, baseUnits, printResolutions, mapCenter, size,
                   pageScale, pageCenter, nestedFit, calls>>
    /\ zoomBefore' = mapZoom
    /\ UNCHANGED lvars

\* fitZoom after map.zoomTo returned: delete this._updating
fitZoomEnd ==
    /\ stack # << >>
    /\ Top(stack) = "fitZoom.end"
    /\ updating' = afterFitZoom(updating)
    /\ stack' = Pop(stack)
    /\ lastStep' = "fitZoom.end"
    /\ lastRead' = "none"
    /\ UNCHANGED <<scales, layout, units, baseUnits, printResolutions, mapZoom, mapCenter,
                   size, pageScale, pageCenter, nestedFit, calls>>
    /\ zoomBefore' = mapZoom
    /\ UNCHANGED lvars

\* the print provider is given another scale list
scalesChange(sl) ==
    /\ stack = << >>
    /\ sl # scales
    /\ scales' = sl
    /\ lastStep' = "scalesChange"
    /\ lastRead' = "none"
    /\ UNCHANGED <<layout, units, baseUnits, printResolutions, mapZoom, mapCenter, size,
                   pageScale, pageCenter, updating, stack, nestedFit, calls>>
    /\ zoomBefore' = mapZoom
    /\ UNCHANGED lvars

\* the source map's units change
unitsChange(u) ==
    /\ stack = << >>
    /\ u # units
    /\ units' = u
    /\ lastStep' = "unitsChange"
    /\ lastRead' = "none"
    /\ UNCHANGED <<scales, layout, baseUnits, printResolutions, mapZoom, mapCenter, size,
                   pageScale, pageCenter, updating, stack, nestedFit, calls>>
    /\ zoomBefore' = mapZoom
    /\ UNCHANGED lvars

\* the listeners of layoutchange in the order initComponent registers them
layoutchangeListeners == <<"fitSize", "updatePrintResolutions">>

\* the list each listener of layoutchange leaves, run in order from listener k on
RECURSIVE runListeners(_, _, _, _)
runListeners(order, k, st, env) ==
    IF k > Len(order) THEN st
    ELSE IF order[k] = "fitSize"
         THEN runListeners(order, k + 1,
                  [st EXCEPT !.size = fitSizeOf(env.layout, env.scales, env.units, st.res),
                             !.read = st.res], env)
         ELSE runListeners(order, k + 1,
                  [st EXCEPT !.res = updatePrintResolutions(env.scales, env.units)], env)

\* the print provider fires layoutchange
layoutchange(l) ==
    /\ stack = << >>
    /\ layout' = l
    /\ LET out == runListeners(layoutchangeListeners, 1,
                      [size |-> size, res |-> printResolutions, read |-> << >>],
                      [layout |-> l, scales |-> scales, units |-> units])
       IN /\ size' = out.size
          /\ printResolutions' = out.res
          /\ lastRead' = readOf(out.read)
    /\ lastStep' = "layoutchange"
    /\ calls' = << >>
    /\ UNCHANGED <<scales, units, baseUnits, mapZoom, mapCenter, pageScale, pageCenter,
                   updating, stack, nestedFit>>
    /\ zoomBefore' = mapZoom
    /\ UNCHANGED lvars

\* a call of getZoomForResolution(resolution), kept with the one before it
callGetZoomForResolution(resolution) ==
    /\ stack = << >>
    /\ calls' = SubSeq(calls, Max(1, Len(calls)), Len(calls))
                  \o <<[resolution |-> resolution,
                        zoom |-> getZoomForResolution(printResolutions, resolution)]>>
    /\ lastStep' = "getZoomForResolution"
    /\ lastRead' = readOf(printResolutions)
    /\ UNCHANGED <<scales, layout, units, baseUnits, printResolutions, mapZoom, mapCenter,
                   size, pageScale, pageCenter, updating, stack, nestedFit>>
    /\ zoomBefore' = mapZoom
    /\ UNCHANGED lvars



\* the preview map and the print page, with the provider and the source map as
\* initComponent found them
Next ==
    \/ zoomIn
    \/ zoomOut
    \/ zoomToMaxExtent
    \/ \E z \in Zooms, c \in Centers : userMove(z, c)
    \/ \E s \in Range(scales), c \in Centers : pageChange(s, c)
    \/ updatePage
    \/ updatePageEnd
    \/ fitZoom
    \/ fitZoomEnd

Spec == Init /\ [][Next]_vars

\* the provider and the source map change under an idle panel
NextEnv ==
    \/ \E sl \in ScaleLists : scalesChange(sl)
    \/ \E u \in Units : unitsChange(u)
    \/ \E l \in Layouts : layoutchange(l)

SpecEnv == Init /\ [][NextEnv]_vars

\* getZoomForResolution on the list and the zoom that initComponent computed
InitZoom ==
    /\ \E sl \in ScaleLists, u \in Units, r \in Targets :
          /\ initComponent(sl, u, r)
          /\ calls = <<[resolution |-> r, zoom |-> mapZoom]>>
    /\ legendIdle

NextZoom == \E r \in Targets : callGetZoomForResolution(r)

SpecZoom == InitZoom /\ [][NextZoom]_vars

(***************************************************************************)
(* GisArts.WMSLegend.  An item is [xtype, url]; a URL is << >> (undefined) *)
(* or <<p>> with p the request parameters of the legend graphic.           *)
(***************************************************************************)
Extents == {[left |-> 0, bottom |-> 0, right |-> 2, top |-> 1],
            [left |-> 1, bottom |-> 1, right |-> 4, top |-> 3]}
LayerNames == <<"a", "b", "c">>
LegendLayerLists == {<< >>, <<"a", "b">>}
Label == [xtype |-> "label", url |-> << >>]

\* bounds.toBBOX(null, reverseAxisOrder) and bounds.toArray(reverseAxisOrder): the
\* same four numbers in the same order, as a string or as an array
toArray(bounds, reverseAxisOrder) ==
    IF reverseAxisOrder
    THEN <<bounds.bottom, bounds.left, bounds.top, bounds.right>>
    ELSE <<bounds.left, bounds.bottom, bounds.right, bounds.top>>

\* layer.adjustBounds(bounds): the bounds widened by the layer's gutter
adjustBounds(bounds, gutter) ==
    [left |-> bounds.left - gutter, bottom |-> bounds.bottom - gutter,
     right |-> bounds.right + gutter, top |-> bounds.top + gutter]

\* layer.getImageSize(bounds), at one map unit per pixel
getImageSize(bounds) == [w |-> bounds.right - bounds.left, h |-> bounds.top - bounds.bottom]

\* getLegendUrl: the parameters handed to layer.getFullRequestString, which adds
\* the layer's own LAYERS when none is given
getLegendUrl(l) ==
    IF l.map /\ l.extent # << >>
    THEN LET bounds == adjustBounds(l.extent[1], l.gutter)
             imageSize == getImageSize(bounds)
         IN <<[BBOX |-> toArray(bounds, l.reverse),
               WIDTH |-> imageSize.w,
               HEIGHT |-> imageSize.h,
               REQUEST |-> "GetLegendGraphic",
               LAYERS |-> IF l.legendLayers # << >> THEN l.legendLayers ELSE LayerNames]>>
    ELSE << >>

\* the check that bypasses update: !(layer && layer.map)
updateBypassedNoMapCheck(l) == ~l.present
updateBypassed(l) == ~(l.present /\ l.map)

\* textCmp: the index of the first label item, 0 when there is none
textCmp(its) ==
    IF \E k \in DOMAIN its : its[k].xtype = "label"
    THEN CHOOSE k \in DOMAIN its :
            its[k].xtype = "label" /\ \A j \in 1..(k - 1) : its[j].xtype # "label"
    ELSE 0

\* update after the superclass update: every item but textCmp is given the legend URL;
\* when there is none, an item of itemXType is added with it
reconcileAlwaysAdds(its, url) ==
    [k \in DOMAIN its |-> IF k # textCmp(its) THEN [its[k] EXCEPT !.url = url] ELSE its[k]]
        \o <<[xtype |-> "image", url |-> url]>>
reconcile(its, url) ==
    LET set == [k \in DOMAIN its |->
                   IF k # textCmp(its) THEN [its[k] EXCEPT !.url = url] ELSE its[k]]
        found == \E k \in DOMAIN its : k # textCmp(its)
    IN IF found THEN set ELSE Append(set, [xtype |-> "image", url |-> url])

panelIdle ==
    /\ scales = <<2592>>
    /\ layout = DefaultLayout
    /\ units = "yd"
    /\ baseUnits = "yd"
    /\ printResolutions = updatePrintResolutions(<<2592>>, "yd")
    /\ mapZoom = 0
    /\ mapCenter = "c0"
    /\ size = fitSizeOf(DefaultLayout, <<2592>>, "yd", updatePrintResolutions(<<2592>>, "yd"))
    /\ pageScale = 0
    /\ pageCenter = "none"
    /\ updating = FALSE
    /\ stack = << >>
    /\ nestedFit = FALSE
    /\ lastStep = "none"
    /\ zoomBefore = 0
    /\ lastRead = "none"
    /\ calls = << >>

\* the URLs the image items of a legend may hold when update runs
ItemUrls == {<< >>} \cup
    {getLegendUrl([present |-> TRUE, map |-> TRUE, extent |-> <<e>>,
                   legendLayers |-> ll, reverse |-> r, gutter |-> 0]) :
        e \in Extents, ll \in LegendLayerLists, r \in BOOLEAN}

\* a legend holds its title label, then image items
ItemLists ==
    {<<Label>> \o imgs :
        imgs \in UNION {[1..n -> {[xtype |-> "image", url |-> u] : u \in ItemUrls}] :
                          n \in 0..MaxImages}}

InitLegend ==
    /\ layer \in [present : BOOLEAN, map : BOOLEAN,
                  extent : {<< >>} \cup {<<e>> : e \in Extents},
                  legendLayers : LegendLayerLists, reverse : BOOLEAN, gutter : {0, 1}]
    /\ layer.map => layer.present
    /\ layer.extent # << >> => layer.map
    /\ items \in ItemLists
    /\ ranSuper = FALSE
    /\ ranLayout = FALSE
    /\ urlResult = << >>
    /\ before = items
    /\ lastOp = "none"
    /\ panelIdle

\* update(); called again with nothing changed in between it is "update+"
updateBody(op) ==
    /\ before' = items
    /\ lastOp' = op
    /\ IF updateBypassed(layer')
       THEN /\ ranSuper' = FALSE
            /\ ranLayout' = FALSE
            /\ items' = items
       ELSE /\ ranSuper' = TRUE
            /\ items' = reconcile(items, getLegendUrl(layer'))
            /\ ranLayout' = TRUE
    /\ UNCHANGED urlResult

update ==
    /\ UNCHANGED layer
    /\ updateBody(IF lastOp \in {"update", "update+", "moveend"} THEN "update+" ELSE "update")
    /\ UNCHANGED pvars

\* the layer's map is moved to another extent: onLayerMoveend calls update
onLayerMoveend(e) ==
    /\ layer.map
    /\ layer.extent # <<e>>
    /\ layer' = [layer EXCEPT !.extent = <<e>>]
    /\ updateBody("moveend")
    /\ UNCHANGED pvars

\* the layer is removed from its map
removeLayer ==
    /\ layer.map
    /\ layer' = [layer EXCEPT !.map = FALSE, !.extent = << >>]
    /\ lastOp' = "removeLayer"
    /\ UNCHANGED <<items, ranSuper, ranLayout, urlResult, before>>
    /\ UNCHANGED pvars

\* the layer is added to a map, which may not have an extent yet
addLayer(ext) ==
    /\ layer.present
    /\ ~layer.map
    /\ layer' = [layer EXCEPT !.map = TRUE, !.extent = ext]
    /\ lastOp' = "addLayer"
    /\ UNCHANGED <<items, ranSuper, ranLayout, urlResult, before>>
    /\ UNCHANGED pvars

\* getLegendUrl() called on its own; with no layer it throws and nothing is returned
callGetLegendUrl ==
    /\ layer.present
    /\ urlResult' = getLegendUrl(layer)
    /\ lastOp' = "getLegendUrl"
    /\ UNCHANGED <<layer, items, ranSuper, ranLayout, before>>
    /\ UNCHANGED pvars

NextLegend ==
    \/ update
    \/ \E e \in Extents : onLayerMoveend(e)
    \/ removeLayer
    \/ \E ext \in {<< >>} \cup {<<e>> : e \in Extents} : addLayer(ext)
    \/ callGetLegendUrl

SpecLegend == InitLegend /\ [][NextLegend]_vars

(***************************************************************************)
(* The claims.                                                             *)
(***************************************************************************)
NonIncreasing(list) == \A k \in 1..(Len(list) - 1) : list[k] >= list[k + 1]
fitZoomExecuting == "fitZoom.end" \in Range(stack)
resolutionNow == sourceGetResolutionForZoom(mapZoom)
resolutionBefore == sourceGetResolutionForZoom(zoomBefore)

\* C1: a moveend raised while fitZoom is executing makes updatePage a no-op:
\* printPage.fit is never invoked nested inside fitZoom.
C1_NoFeedbackLoop ==
    /\ ~nestedFit
    /\ lastStep = "updatePage.fit" => ~fitZoomExecuting

\* the moveend of fitZoom's map.zoomTo has been handled by updatePage, inside fitZoom
C1_Witness ==
    /\ lastStep = "updatePage.skip"
    /\ updating
    /\ Top(stack) = "fitZoom.end"

\* C2: _updating is set exactly while a fitZoom call is executing, so the panel is idle
\* whenever none is; a moveend handled while idle calls printPage.fit, and updatePage
\* does not set the guard.
C2_TwoStates ==
    /\ updating \in BOOLEAN
    /\ updating <=> fitZoomExecuting
    /\ lastStep = "updatePage.skip" => fitZoomExecuting
    /\ lastStep = "updatePage.fit" => ~updating

\* a fitZoom raised by the page change of an idle moveend has completed and cleared
\* the guard
C2_Witness ==
    /\ lastStep = "fitZoom.end"
    /\ ~updating
    /\ stack = <<"updatePage.end">>

\* the last call of getZoomForResolution and what it selected
lastCall == calls[Len(calls)]
leadingRun(list, t) == {k \in DOMAIN list : \A j \in 1..k : list[j] >= t}
SetMax(S) == CHOOSE x \in S : \A y \in S : y <= x

\* C3 as stated: on every non-empty list the last entry that is >= target is selected,
\* and the first entry when the target exceeds all entries.
C3_LastEntryNotBelowTarget ==
    calls # << >> =>
        LET t == lastCall.resolution
            notBelow == {k \in DOMAIN printResolutions : printResolutions[k] >= t}
        IN lastCall.zoom = sourceGetZoomForResolution(
               printResolutions[IF notBelow # {} THEN SetMax(notBelow) ELSE 1])

\* C3 amended: the entry immediately before the first entry strictly less than target
\* is selected (the last entry when none is less, the first entry when the first is
\* less); on a non-increasing list that is the last entry >= target.  The zoom returned
\* is the source map's zoom for the selected entry.
C3_LeadingRun ==
    calls # << >> =>
        LET t == lastCall.resolution
            run == leadingRun(printResolutions, t)
            notBelow == {k \in DOMAIN printResolutions : printResolutions[k] >= t}
        IN /\ lastCall.zoom = sourceGetZoomForResolution(
                  printResolutions[IF run # {} THEN SetMax(run) ELSE 1])
           /\ NonIncreasing(printResolutions) =>
                  lastCall.zoom = sourceGetZoomForResolution(
                      printResolutions[IF notBelow # {} THEN SetMax(notBelow) ELSE 1])

\* a call whose cutoff lies inside a list of three different resolutions
C3_Witness ==
    /\ lastStep = "getZoomForResolution"
    /\ Len(printResolutions) = 3
    /\ printResolutions[1] > printResolutions[2]
    /\ printResolutions[2] > printResolutions[3]
    /\ lastCall.resolution > printResolutions[3]
    /\ lastCall.resolution <= printResolutions[2]
    /\ sourceGetResolutionForZoom(lastCall.zoom) = printResolutions[2]

\* C4 as stated: on every list updatePrintResolutions produces, a smaller target never
\* selects a larger resolution.
C4_Monotonic ==
    (Len(calls) = 2 /\ calls[1].resolution < calls[2].resolution) =>
        sourceGetResolutionForZoom(calls[1].zoom)
            <= sourceGetResolutionForZoom(calls[2].zoom)

\* C4 amended: the same on every non-increasing (coarsest first) list.
C4_MonotonicNonIncreasing ==
    (NonIncreasing(printResolutions) /\ Len(calls) = 2
        /\ calls[1].resolution < calls[2].resolution) =>
        sourceGetResolutionForZoom(calls[1].zoom)
            <= sourceGetResolutionForZoom(calls[2].zoom)

\* two calls on a coarsest-first list whose targets select different entries
C4_Witness ==
    /\ NonIncreasing(printResolutions)
    /\ Len(calls) = 2
    /\ calls[1].resolution < calls[2].resolution
    /\ sourceGetResolutionForZoom(calls[1].zoom)
           < sourceGetResolutionForZoom(calls[2].zoom)

\* C5 as stated: the selected resolution is an entry and never finer than the target,
\* except that a target below every entry gets the finest entry.
C5_NeverFinerButAtFineEnd ==
    \A k \in DOMAIN calls :
        LET t == calls[k].resolution
            sel == sourceGetResolutionForZoom(calls[k].zoom)
        IN /\ sel \in Range(printResolutions)
           /\ \/ sel >= t
              \/ /\ \A j \in DOMAIN printResolutions : t < printResolutions[j]
                 /\ \A j \in DOMAIN printResolutions : sel <= printResolutions[j]

\* C5 amended: the selected resolution is an entry and never finer than the target,
\* except at the coarse end: when the first entry is below the target (on a
\* non-increasing list: the target exceeds every entry) the first entry is selected.
\* It holds of the zoom initComponent computes from idealResolution too.
C5_NeverFinerButAtCoarseEnd ==
    \A k \in DOMAIN calls :
        LET t == calls[k].resolution
            sel == sourceGetResolutionForZoom(calls[k].zoom)
        IN /\ sel \in Range(printResolutions)
           /\ \/ sel >= t
              \/ /\ printResolutions[1] < t
                 /\ sel = printResolutions[1]
           /\ NonIncreasing(printResolutions) =>
                  (sel < t <=> \A j \in DOMAIN printResolutions : printResolutions[j] < t)
           /\ lastStep = "initComponent" => calls[k].zoom = mapZoom

\* on a coarsest-first list a target between two entries got the coarser one, and
\* then a target above every entry got the first entry
C5_Witness ==
    /\ lastStep = "getZoomForResolution"
    /\ NonIncreasing(printResolutions)
    /\ Len(printResolutions) >= 2
    /\ Len(calls) = 2
    /\ \E j \in DOMAIN printResolutions : printResolutions[j] < calls[1].resolution
    /\ sourceGetResolutionForZoom(calls[1].zoom) > calls[1].resolution
    /\ printResolutions[1] < calls[2].resolution
    /\ sourceGetResolutionForZoom(calls[2].zoom) = printResolutions[1]

imageItems(its) == {k \in DOMAIN its : its[k].xtype # "label"}

\* C6: with no layer, or a layer on no map, update has no effect: no superclass
\* update, no item added, no URL set, no layout; getLegendUrl gives no URL when the
\* layer is on no map.
C6_NoEffectWithoutMap ==
    /\ (lastOp \in {"update", "update+"} /\ ~(layer.present /\ layer.map)) =>
           (items = before /\ ~ranSuper /\ ~ranLayout)
    /\ (lastOp = "getLegendUrl" /\ ~layer.map) => urlResult = << >>

\* update ran on a layer removed from its map, with image items in the legend
C6_Witness ==
    /\ lastOp \in {"update", "update+"}
    /\ layer.present
    /\ ~layer.map
    /\ imageItems(items) # {}
    /\ \E k \in imageItems(items) : items[k].url # << >>

\* C7: on a layer attached to a map, update leaves exactly one image item when there was
\* none and the existing number otherwise, every image item holds the current
\* getLegendUrl() value, and a further update with nothing changed changes nothing.
C7_Idempotent ==
    (lastOp \in {"update", "update+", "moveend"} /\ layer.present /\ layer.map) =>
        /\ Cardinality(imageItems(items)) =
               IF imageItems(before) = {} THEN 1 ELSE Cardinality(imageItems(before))
        /\ \A k \in imageItems(items) : items[k].url = getLegendUrl(layer)
        /\ \A k \in DOMAIN items \ imageItems(items) : k \in DOMAIN before /\ items[k] = before[k]
        /\ lastOp = "update+" => items = before

\* a second update in a row on an attached layer whose legend has its one image item
C7_Witness ==
    /\ lastOp = "update+"
    /\ layer.map
    /\ layer.extent # << >>
    /\ Cardinality(imageItems(items)) = 1
    /\ items = before

\* C8: every read of printResolutions sees what updatePrintResolutions computes from
\* the current scale list and units, the read of fitSize on layoutchange included.
C8_ReadsAreFresh == lastRead # "stale"

\* C9: zoomIn, zoomOut and zoomToMaxExtent leave the preview map at the source map's
\* zoom for an entry of printResolutions, from any resolution; from a resolution that
\* is no entry (indexOf gives -1) the index is clamped to the first entry, which on a
\* coarsest-first list is then the resolution of the map.
C9_OnlySupportedResolutions ==
    lastStep \in {"zoomIn", "zoomOut", "zoomToMaxExtent"} =>
        /\ \E k \in DOMAIN printResolutions :
              mapZoom = sourceGetZoomForResolution(printResolutions[k])
        /\ resolutionNow \in Range(printResolutions)
        /\ (NonIncreasing(printResolutions)
               /\ (lastStep = "zoomToMaxExtent"
                      \/ resolutionBefore \notin Range(printResolutions))) =>
               resolutionNow = printResolutions[1]

\* zoomIn from a resolution that is no entry of a list of several resolutions
C9_Witness ==
    /\ lastStep = "zoomIn"
    /\ resolutionBefore \notin Range(printResolutions)
    /\ Len(printResolutions) >= 2
    /\ resolutionNow = printResolutions[1]

\* C10: zoomIn from an entry other than the finest moves to a strictly finer entry, and
\* zoomOut from an entry other than the coarsest to a strictly coarser one; stated on
\* the coarsest-first lists (duplicates allowed), where the finest entry is the last
\* and the coarsest the first.
C10_ZoomProgress ==
    (NonIncreasing(printResolutions) /\ resolutionBefore \in Range(printResolutions)) =>
        /\ (lastStep = "zoomIn"
               /\ resolutionBefore # printResolutions[Len(printResolutions)]) =>
               resolutionNow < resolutionBefore
        /\ (lastStep = "zoomOut" /\ resolutionBefore # printResolutions[1]) =>
               resolutionNow > resolutionBefore

====
